---- MODULE Spec2Model ----
(***************************************************************************)
(* A model of pietrorichelli/dmrg: the tiered tensor stores (MPS, CONT),   *)
(* the contraction environment, the two-site sweep engine and the Lanczos  *)
(* ground-state solver.                                                    *)
(*                                                                         *)
(* Tensors are abstracted to what the stores and the engine can observe:   *)
(*   val   - the data, as the sequence of the identities of the site       *)
(*           tensors it was computed from (a site tensor is <<id>>, an      *)
(*           environment tensor lists the site tensors it contracted),      *)
(*   shape - the numpy shape,                                               *)
(*   dt    - the numpy dtype ("float64" or "complex128").                  *)
(* Byte sizes are exact: nbytes = prod(shape) * itemsize.                   *)
(***************************************************************************)
EXTENDS Integers, Sequences, FiniteSets, TLC

VARIABLES
    L,      \* chain length (MPS.L, CONT.L)
    mps,    \* the MPS store: [ram, dat, txt, cur, max]
    S,      \* MPS.S, the bond spectra: bond -> tensor
    cont,   \* the CONT store: [ram, dat, txt, cur, max], ram/dat/txt per direction
    pc,     \* position of the driver
    wlog,   \* the writes performed through the store API, oldest first
    ret,    \* outcome of the last call
    eng,    \* the sweep engine: schedule position, chi, last step
    lz,     \* the Lanczos solver
    runs    \* two runs alive at once: the directories on disk and each run's MPS store

vars == <<L, mps, S, cont, pc, wlog, ret, eng, lz, runs>>

(***************************************************************************)
(* Bounds and program constants                                            *)
(***************************************************************************)
MaxWrites == 2          \* API writes per behaviour
MaxBudgetUnits == 3     \* budgets explored: 0 .. MaxBudgetUnits floats' worth
d == 2                  \* physical dimension
FloatSize == 8          \* bytes of a float64 element
ComplexSize == 16       \* bytes of a complex128 element
Wbond == 3              \* virtual bond of the MPO (MPO_TFI)

ChainLengths == {3, 4}  \* one odd and one even chain: the constructors branch on L % 2
Dirs == {"l", "r"}
BadDir == "x"           \* a direction tag outside the two recognized values

(***************************************************************************)
(* Tensors                                                                 *)
(***************************************************************************)
Tensor(v, sh, t) == [val |-> v, shape |-> sh, dt |-> t]

NoTensor == [val |-> <<>>, shape |-> <<>>, dt |-> "none"]

RECURSIVE Prod(_)
Prod(sh) == IF sh = <<>> THEN 1 ELSE Head(sh) * Prod(Tail(sh))

ItemSize(t) == IF t = "float64" THEN FloatSize ELSE ComplexSize

nbytes(ten) == Prod(ten.shape) * ItemSize(ten.dt)

\* numpy equality of two arrays: same shape, same entries; the dtype is not compared
TensorEq(a, b) == a.val = b.val /\ a.shape = b.shape

\* np.eye(d)
eye == Tensor(<<0>>, <<d, d>>, "float64")

\* np.reshape(np.eye(d**2)[:,:d],(d,d,d)): the extra seed of an odd chain
oddSeed == Tensor(<<0>>, <<d, d, d>>, "float64")

\* dtype of an arithmetic result
Promote(t1, t2) == IF t1 = "float64" /\ t2 = "float64" THEN "float64" ELSE "complex128"

(***************************************************************************)
(* Finite maps (python dicts, directory listings)                          *)
(***************************************************************************)
EmptyMap == [x \in {} |-> NoTensor]

Put(f, k, v) == [x \in (DOMAIN f) \cup {k} |-> IF x = k THEN v ELSE f[x]]

Drop(f, k) == [x \in (DOMAIN f) \ {k} |-> f[x]]

Bool2Int(b) == IF b THEN 1 ELSE 0

\* a .dat file created by open(path,'w'): it exists and holds no bytes
EmptyFile == [val |-> <<>>, len |-> 0]

Payload(ten) == [val |-> ten.val, len |-> Prod(ten.shape)]

Ok(st) == [out |-> "ok", st |-> st]

Raise(e, st) == [out |-> e, st |-> st]

Got(ten) == [out |-> "ok", ten |-> ten]

Fail(e) == [out |-> e, ten |-> NoTensor]

(***************************************************************************)
(* MPS store                                                               *)
(***************************************************************************)
\* MPS.ram.write
MPS_ram_write(st, i, ten) == [st EXCEPT !.ram = Put(@, i, ten)]

\* MPS.ram.read: KeyError when the dictionary has no such key
MPS_ram_read(st, i) == IF i \in DOMAIN st.ram THEN Got(st.ram[i]) ELSE Fail("KeyError")

\* MPS.disk.write: payload cast to complex into ten_i.dat, shape into ten_i.txt
MPS_disk_write(st, i, ten) ==
    [st EXCEPT !.dat = Put(@, i, Payload(ten)), !.txt = Put(@, i, ten.shape)]

\* a faulty variant: the payload file is mapped without consulting the sidecar
MPS_disk_read_noSidecar(st, i) ==
    IF i \notin DOMAIN st.dat THEN Fail("FileNotFoundError")
    ELSE Got(Tensor(st.dat[i].val, <<st.dat[i].len>>, "complex128"))

\* MPS.disk.shape / MPS.disk.read: the sidecar is opened first
MPS_disk_read(st, i) ==
    IF i \notin DOMAIN st.txt THEN Fail("FileNotFoundError")
    ELSE Got(Tensor(st.dat[i].val, st.txt[i], "complex128"))

\* MPS.ram.empty_MPS
MPS_ram_empty_MPS(len) == Put(Put(EmptyMap, 0, eye), len - 1, eye)

\* MPS.disk.empty_MPS
MPS_disk_empty_MPS(st, len) ==
    LET blank == [st EXCEPT !.dat = [i \in 0..(len - 1) |-> EmptyFile], !.txt = EmptyMap]
        ends  == MPS_disk_write(MPS_disk_write(blank, 0, eye), len - 1, eye)
    IN  IF len % 2 = 1 THEN MPS_disk_write(ends, 1, oddSeed) ELSE ends

\* MPS.__init__
MPS_init(len, budget) ==
    LET st0 == [ram |-> MPS_ram_empty_MPS(len), dat |-> EmptyMap, txt |-> EmptyMap,
                cur |-> 0, max |-> 0]
    IN  [MPS_disk_empty_MPS(st0, len) EXCEPT !.max = budget, !.cur = 0]

\* a faulty variant: a tensor that exactly fills the budget is routed to the overflow tier
Overflows_atFill(st, ten) == st.cur >= st.max - nbytes(ten)

\* the routing test of MPS.write / CONT.write
Overflows(st, ten) == st.cur > st.max - nbytes(ten)

\* a faulty variant: the counter grows whichever tier took the tensor
MPS_write_countsAll(st, i, ten) ==
    LET st1 == IF Overflows(st, ten) THEN MPS_disk_write(st, i, ten)
                                     ELSE MPS_ram_write(st, i, ten)
    IN  Ok([st1 EXCEPT !.cur = @ + nbytes(ten)])

\* a faulty variant: an overflowing tensor is written through to both tiers
MPS_write_through(st, i, ten) ==
    LET size == nbytes(ten)
        st1  == IF Overflows(st, ten) THEN MPS_ram_write(MPS_disk_write(st, i, ten), i, ten)
                                      ELSE MPS_ram_write(st, i, ten)
    IN  Ok([st1 EXCEPT !.cur = @ + size * Bool2Int(st1.cur <= st1.max - size)])

\* MPS.write
MPS_write(st, i, ten) ==
    LET size == nbytes(ten)
        st1  == IF Overflows(st, ten) THEN MPS_disk_write(st, i, ten)
                                      ELSE MPS_ram_write(st, i, ten)
    IN  Ok([st1 EXCEPT !.cur = @ + size * Bool2Int(st1.cur <= st1.max - size)])

\* MPS.read
MPS_read(st, i) ==
    IF MPS_ram_read(st, i).out = "KeyError" THEN MPS_disk_read(st, i)
    ELSE MPS_ram_read(st, i)

(***************************************************************************)
(* Contractions (CONT.left, CONT.right, CONT.add) on the abstract tensors  *)
(***************************************************************************)
\* the boundary contraction of mps.read(0) with Wl (of mps.read(L-1) with Wr)
BoundaryEnv(t) ==
    Tensor(t.val, <<t.shape[Len(t.shape)], Wbond, t.shape[Len(t.shape)]>>, Promote(t.dt, "float64"))

\* the three tensordot calls that absorb one site tensor into an environment:
\* direction 'l' contracts the site's left bond (axis 1), 'r' its right bond (axis 2)
CanAbsorb(env, t, dir) ==
    /\ Len(t.shape) = 3
    /\ Len(env.shape) = 3
    /\ t.shape[1] = d
    /\ t.shape[IF dir = "l" THEN 2 ELSE 3] = env.shape[1]

Absorb(env, t, dir) ==
    LET b == t.shape[IF dir = "l" THEN 3 ELSE 2]
    IN  Tensor(IF dir = "l" THEN env.val \o t.val ELSE t.val \o env.val,
               <<b, Wbond, b>>, Promote(env.dt, t.dt))

\* CONT.left(site) on the chain store m: the loop over sites 1..site
RECURSIVE LeftFrom(_, _, _, _)
LeftFrom(m, res, i, site) ==
    IF i > site THEN Got(res)
    ELSE IF MPS_read(m, i).out # "ok" THEN Fail(MPS_read(m, i).out)
    ELSE IF ~CanAbsorb(res, MPS_read(m, i).ten, "l") THEN Fail("ValueError")
    ELSE LeftFrom(m, Absorb(res, MPS_read(m, i).ten, "l"), i + 1, site)

CONT_left(m, site) ==
    IF MPS_read(m, 0).out # "ok" THEN Fail(MPS_read(m, 0).out)
    ELSE LeftFrom(m, BoundaryEnv(MPS_read(m, 0).ten), 1, site)

\* CONT.right(site): the loop over sites L-2 down to site
RECURSIVE RightFrom(_, _, _, _)
RightFrom(m, res, i, site) ==
    IF i < site THEN Got(res)
    ELSE IF MPS_read(m, i).out # "ok" THEN Fail(MPS_read(m, i).out)
    ELSE IF ~CanAbsorb(res, MPS_read(m, i).ten, "r") THEN Fail("ValueError")
    ELSE RightFrom(m, Absorb(res, MPS_read(m, i).ten, "r"), i - 1, site)

CONT_right(m, len, site) ==
    IF MPS_read(m, len - 1).out # "ok" THEN Fail(MPS_read(m, len - 1).out)
    ELSE RightFrom(m, BoundaryEnv(MPS_read(m, len - 1).ten), len - 2, site)

(***************************************************************************)
(* CONT store                                                              *)
(***************************************************************************)
\* CONT.ram.write: CONTS[dir] raises KeyError for an unknown direction
CONT_ram_write(st, i, ten, dir) ==
    IF dir \notin DOMAIN st.ram THEN Raise("KeyError", st)
    ELSE Ok([st EXCEPT !.ram[dir] = Put(@, i, ten)])

\* CONT.ram.read
CONT_ram_read(st, i, dir) ==
    IF dir \notin DOMAIN st.ram THEN Fail("KeyError")
    ELSE IF i \notin DOMAIN st.ram[dir] THEN Fail("KeyError")
    ELSE Got(st.ram[dir][i])

\* a faulty variant: an unknown direction is filed under LEFT
CONT_disk_write_anyDir(st, site, ten, dir) ==
    LET to == IF dir = "r" THEN "r" ELSE "l"
    IN  Ok([st EXCEPT !.dat[to] = Put(@, site, Payload(ten)),
                      !.txt[to] = Put(@, site, ten.shape)])

\* CONT.disk.write
CONT_disk_write(st, site, ten, dir) ==
    IF dir # "l" /\ dir # "r" THEN Raise("ValueError", st)
    ELSE Ok([st EXCEPT !.dat[dir] = Put(@, site, Payload(ten)),
                       !.txt[dir] = Put(@, site, ten.shape)])

\* CONT.disk.shape / CONT.disk.read
CONT_disk_read(st, site, dir) ==
    IF dir \notin DOMAIN st.txt THEN Fail("KeyError")
    ELSE IF site \notin DOMAIN st.txt[dir] THEN Fail("FileNotFoundError")
    ELSE Got(Tensor(st.dat[dir][site].val, st.txt[dir][site], "complex128"))

\* CONT.ram.empty_LEFT: left(i) for i in range(L%2+1)
CONT_ram_empty_LEFT(m, len) ==
    LET l0 == Put(EmptyMap, 0, CONT_left(m, 0).ten)
    IN  IF len % 2 = 1 THEN Put(l0, 1, CONT_left(m, 1).ten) ELSE l0

\* CONT.ram.empty_RIGHT
CONT_ram_empty_RIGHT(m, len) == Put(EmptyMap, len - 1, BoundaryEnv(MPS_read(m, len - 1).ten))

\* CONT.disk.empty_CONT: empty payload files for the first L-3 keys of each side
CONT_disk_empty_CONT(len) ==
    [l |-> [i \in 0..(len - 4) |-> EmptyFile],
     r |-> [i \in (len - 1 - (len - 4))..(len - 1) |-> EmptyFile]]

\* CONT.__init__
CONT_init(m, len, budget) ==
    [ram |-> [l |-> CONT_ram_empty_LEFT(m, len), r |-> CONT_ram_empty_RIGHT(m, len)],
     dat |-> CONT_disk_empty_CONT(len),
     txt |-> [l |-> EmptyMap, r |-> EmptyMap],
     cur |-> 0, max |-> budget]

\* the store before its constructor ran
NoCont ==
    [ram |-> [l |-> EmptyMap, r |-> EmptyMap], dat |-> [l |-> EmptyMap, r |-> EmptyMap],
     txt |-> [l |-> EmptyMap, r |-> EmptyMap], cur |-> 0, max |-> 0]

\* the except ValueError branch of CONT.write
CONT_write_onValueError(st, i, ten, dir) ==
    IF dir \notin DOMAIN st.ram THEN Raise("KeyError", st)
    ELSE LET freed == IF i \in DOMAIN st.ram[dir] THEN nbytes(st.ram[dir][i]) ELSE 0
         IN  CONT_disk_write([st EXCEPT !.cur = @ - freed, !.ram[dir] = Drop(@, i)],
                             i, ten, dir)

\* CONT.write
CONT_write(st, i, ten, dir) ==
    LET size == nbytes(ten)
        r1   == IF Overflows(st, ten) THEN CONT_disk_write(st, i, ten, dir)
                                      ELSE CONT_ram_write(st, i, ten, dir)
    IN  CASE r1.out = "ok" ->
               Ok([r1.st EXCEPT !.cur = @ + size * Bool2Int(r1.st.cur <= r1.st.max - size)])
          [] r1.out = "ValueError" -> CONT_write_onValueError(st, i, ten, dir)
          [] r1.out = "KeyError" -> CONT_disk_write(st, i, ten, dir)

\* CONT.read
CONT_read(st, i, dir) ==
    IF CONT_ram_read(st, i, dir).out = "KeyError" THEN CONT_disk_read(st, i, dir)
    ELSE CONT_ram_read(st, i, dir)

\* CONT.add: the new environment and the store after writing it
CONT_add(st, m, site, dir) ==
    LET from == CONT_read(st, IF dir = "l" THEN site - 1 ELSE site + 1, dir)
        t    == MPS_read(m, site)
    IN  IF dir \notin Dirs THEN [out |-> "KeyError", st |-> st, ten |-> NoTensor]
        ELSE IF from.out # "ok" THEN [out |-> from.out, st |-> st, ten |-> NoTensor]
        ELSE IF t.out # "ok" THEN [out |-> t.out, st |-> st, ten |-> NoTensor]
        ELSE IF ~CanAbsorb(from.ten, t.ten, dir) THEN [out |-> "ValueError", st |-> st, ten |-> NoTensor]
        ELSE LET w == CONT_write(st, site, Absorb(from.ten, t.ten, dir), dir)
             IN  [out |-> w.out, st |-> w.st, ten |-> Absorb(from.ten, t.ten, dir)]

\* CONT.env_prep
CONT_env_prep(st, site) == <<CONT_read(st, site - 1, "l"), CONT_read(st, site + 2, "r")>>

(***************************************************************************)
(* The store API: any sequence of writes and reads on a freshly built      *)
(* MPS store, or on a CONT store built right after it (as the driver       *)
(* examples/TFIM.py does, with the same max_ram).                          *)
(***************************************************************************)
Budgets == {u * FloatSize : u \in 0..MaxBudgetUnits}

\* the tensors handed to write: a real one of 8 bytes and a complex one of 16
InputTensors == {Tensor(<<1>>, <<1>>, "float64"), Tensor(<<2>>, <<1>>, "complex128")}

Keys == 0..(L - 1)

\* the sites add absorbs, and the sites whose two-site window has both environments
Interior == 1..(L - 2)

WindowSites == 1..(L - 3)

Call(op, st, dir, key, out, ten) ==
    [op |-> op, st |-> st, dir |-> dir, key |-> key, out |-> out, ten |-> ten]

WriteRec(st, dir, key, ten, cur, had) ==
    [st |-> st, dir |-> dir, key |-> key, ten |-> ten, cur |-> cur, had |-> had]

NoStep ==
    [kind |-> "none", site |-> 0, dir |-> "-", stage |-> "-", out |-> "ok",
     envl |-> NoTensor, envr |-> NoTensor, wantl |-> NoTensor, wantr |-> NoTensor,
     adds |-> <<>>, chi |-> 0, n |-> 0, rank |-> 0, big |-> 0, wrote |-> <<>>,
     solver |-> 0, matvec |-> 0, seed |-> NoTensor]

EngIdle ==
    [chi |-> 0, i |-> 0, envl |-> NoTensor, envr |-> NoTensor, lenc |-> 0, clock |-> 1,
     sched |-> <<>>, k |-> 0, prevdir |-> "-", nsteps |-> 0, nturns |-> 0, nadds |-> 0,
     role |-> EmptyMap, nsweeps |-> 0, entemp |-> [first |-> 0, last |-> 0], nfull |-> 0,
     lastS |-> NoTensor, prevS |-> NoTensor,
     last |-> NoStep]

LzIdle == [phase |-> "idle"]

\* a run that has not constructed its store yet
NoRun == [alive |-> FALSE, path |-> "-", ram |-> EmptyMap, cur |-> 0, max |-> 0, over |-> EmptyMap]

RunIds == {"a", "b"}

NoRuns == [fs |-> EmptyMap, inst |-> [x \in RunIds |-> NoRun], n |-> 0]

Init ==
    /\ L \in ChainLengths
    /\ \E b \in Budgets : mps = MPS_init(L, b)
    /\ S = EmptyMap
    /\ cont = NoCont
    /\ pc = "mps"
    /\ wlog = <<>>
    /\ ret = Call("init", "MPS", "-", 0, "ok", NoTensor)
    /\ eng = EngIdle
    /\ lz = LzIdle
    /\ runs = NoRuns

\* mps.write(i, ten)
MPSWrite(i, ten) ==
    /\ pc = "mps"
    /\ Len(wlog) < MaxWrites
    /\ mps' = MPS_write(mps, i, ten).st
    /\ wlog' = Append(wlog, WriteRec("MPS", "-", i, ten, mps.cur,
                                       i \in (DOMAIN mps.ram) \cup (DOMAIN mps.txt)))
    /\ ret' = Call("write", "MPS", "-", i, MPS_write(mps, i, ten).out, NoTensor)
    /\ UNCHANGED <<L, S, cont, pc, eng, lz, runs>>

\* mps.read(i)
MPSRead(i) ==
    /\ pc = "mps"
    /\ ret' = Call("read", "MPS", "-", i, MPS_read(mps, i).out, MPS_read(mps, i).ten)
    /\ UNCHANGED <<L, mps, S, cont, pc, wlog, eng, lz, runs>>

\* cont = CONT(mps, H, max_ram) on the untouched chain
CONTInit ==
    /\ pc = "mps"
    /\ wlog = <<>>
    /\ cont' = CONT_init(mps, L, mps.max)
    /\ pc' = "cont"
    /\ ret' = Call("init", "CONT", "-", 0, "ok", NoTensor)
    /\ UNCHANGED <<L, mps, S, wlog, eng, lz, runs>>

\* whether the store holds an entry (i, dir) in either tier
CONT_has(st, i, dir) ==
    /\ dir \in Dirs
    /\ i \in (DOMAIN st.ram[dir]) \cup (DOMAIN st.txt[dir])

\* cont.write(i, ten, dir)
CONTWrite(i, ten, dir) ==
    /\ pc = "cont"
    /\ Len(wlog) < MaxWrites
    /\ cont' = CONT_write(cont, i, ten, dir).st
    /\ wlog' = IF CONT_write(cont, i, ten, dir).out = "ok"
               THEN Append(wlog, WriteRec("CONT", dir, i, ten, cont.cur,
                                          CONT_has(cont, i, dir)))
               ELSE wlog
    /\ ret' = Call("write", "CONT", dir, i, CONT_write(cont, i, ten, dir).out, NoTensor)
    /\ UNCHANGED <<L, mps, S, pc, eng, lz, runs>>

\* cont.read(i, dir)
CONTRead(i, dir) ==
    /\ pc = "cont"
    /\ ret' = Call("read", "CONT", dir, i, CONT_read(cont, i, dir).out, CONT_read(cont, i, dir).ten)
    /\ UNCHANGED <<L, mps, S, cont, pc, wlog, eng, lz, runs>>

\* cont.add(i, dir)
CONTAdd(i, dir) ==
    /\ pc = "cont"
    /\ Len(wlog) < MaxWrites
    /\ \E a \in {CONT_add(cont, mps, i, dir)} :
           /\ cont' = a.st
           /\ wlog' = IF a.out = "ok"
                      THEN Append(wlog, WriteRec("CONT", dir, i, a.ten, cont.cur,
                                                 CONT_has(cont, i, dir)))
                      ELSE wlog
           /\ ret' = Call("add", "CONT", dir, i, a.out, a.ten)
    /\ UNCHANGED <<L, mps, S, pc, eng, lz, runs>>

(***************************************************************************)
(* The sweep engine (dmrg.py) and the sweep schedules (MPS.py)             *)
(***************************************************************************)
Min(a, b) == IF a < b THEN a ELSE b

\* [(f(i), dir) for i in range(a, b)] as a sequence of steps
RECURSIVE Steps(_, _, _, _)
Steps(a, b, up, dir) ==
    IF a >= b THEN <<>>
    ELSE <<[site |-> IF up THEN a ELSE b - 1, dir |-> dir]>>
         \o (IF up THEN Steps(a + 1, b, up, dir) ELSE Steps(a, b - 1, up, dir))

\* zip(sites, dirs): as long as the shorter of the two
Zip(sites, ndirs) == SubSeq(sites, 1, Min(Len(sites), ndirs))

NonNeg(n) == IF n < 0 THEN 0 ELSE n

\* a faulty variant: the rightward half starts one site beyond the grown bond
MPS_first_sweep_skip(len) ==
    Zip(Steps((len \div 2) + (len % 2) + 1, len - 2, TRUE, "r") \o Steps(1, len - 3, FALSE, "l"),
        NonNeg((len \div 2) - 3) + NonNeg(len - 4))

\* MPS.first_sweep: sites L//2+L%2 .. L-3 rightwards, then L-4 .. 1 leftwards
MPS_first_sweep(len) ==
    Zip(Steps((len \div 2) + (len % 2), len - 2, TRUE, "r") \o Steps(1, len - 3, FALSE, "l"),
        NonNeg((len \div 2) - 2) + NonNeg(len - 4))

\* a faulty variant: the rightward pass starts one site late
MPS_sweep_late(len) ==
    Zip(Steps(3, len - 2, TRUE, "r") \o Steps(1, len - 3, FALSE, "l"),
        NonNeg(len - 5) + NonNeg(len - 4))

\* MPS.sweep: sites 2 .. L-3 rightwards, then L-4 .. 1 leftwards
MPS_sweep(len) ==
    Zip(Steps(2, len - 2, TRUE, "r") \o Steps(1, len - 3, FALSE, "l"),
        NonNeg(len - 4) + NonNeg(len - 4))

\* MPS.right_sweep
MPS_right_sweep(len) == Zip(Steps(2, len - 2, TRUE, "r"), NonNeg(len - 4))

\* MPS.writeS
MPS_writeS(s, i, ten) == Put(s, i, ten)

\* MPS.readS
MPS_readS(s, i) == IF i \in DOMAIN s THEN Got(s[i]) ELSE Fail("KeyError")

\* np.diag(c) for the len(c) = k retained singular values
Spectrum(id, k) == Tensor(<<id>>, <<k, k>>, "float64")

\* a faulty variant: the cap chi is ignored
Rank_uncapped(n, chi) == n

\* if len(c) > self.chi: c = c[:self.chi]: how many of n singular values are kept
Rank(n, chi) == IF n > chi THEN chi ELSE n

\* a site tensor written by a truncation, and the factor it was built from:
\* "L" for left_ten(l), "R" for right_ten(r)
Written(site, role, ten) == [site |-> site, role |-> role, ten |-> ten]

\* the local two-site state of step2sites (init_vec), as its shape; shape <<>> when
\* a tensordot would raise on mismatched axes
InitVecShape(dir, a1, a2, sv) ==
    IF Len(a1.shape) # 3 \/ Len(a2.shape) # 3 \/ a1.shape[3] # a2.shape[2] THEN <<>>
    ELSE IF dir = "r"
         THEN IF sv.shape[1] # a1.shape[2] THEN <<>>
              ELSE <<sv.shape[2], a1.shape[1], a2.shape[1], a2.shape[3]>>
         ELSE IF a2.shape[3] # sv.shape[1] THEN <<>>
              ELSE <<a1.shape[2], a1.shape[1], a2.shape[1], sv.shape[2]>>

\* a faulty variant: the step seeds from the spectrum of its own bond
SeedBond_own(site, dir) == site

\* the spectrum a step seeds its local state from: readS(site+1) for a leftward
\* step, readS(site-1) for a rightward one
SeedBond(site, dir) == IF dir = "l" THEN site + 1 ELSE site - 1

\* a faulty variant: the solver runs in every stage
UsesLanczos_always(stage) == TRUE

\* if stage == None: En, grd = H.lanczos_grd(psi0=init_vec, exc=exc); in stage
\* 'Final' the local state is normalized and H.matvec is applied once
UsesLanczos(stage) == stage = "None"

StepResult(out, m, s, c, last) == [out |-> out, mps |-> m, S |-> s, cont |-> c, last |-> last]

\* dmrg.step2sites(site, dir, stage) with the bond cap chi; id names the new tensors
dmrg_step2sites(m, s, c, chi, id, site, dir, stage) ==
    LET env  == CONT_env_prep(c, site)
        a1   == MPS_read(m, site)
        a2   == MPS_read(m, site + 1)
        sv   == MPS_readS(s, SeedBond(site, dir))
        info == [kind |-> "step", site |-> site, dir |-> dir, stage |-> stage, out |-> "ok",
                 envl |-> env[1].ten, envr |-> env[2].ten,
                 wantl |-> CONT_left(m, site - 1).ten,
                 wantr |-> CONT_right(m, L, site + 2).ten,
                 adds |-> <<>>, chi |-> chi, n |-> 0, rank |-> 0, big |-> 0, wrote |-> <<>>,
                 solver |-> 0, matvec |-> 0, seed |-> sv.ten]
        stop(e) == StepResult(e, m, s, c, [info EXCEPT !.out = e])
    IN  IF env[1].out # "ok" THEN stop(env[1].out)
        ELSE IF env[2].out # "ok" THEN stop(env[2].out)
        ELSE IF dir # "l" /\ dir # "r" THEN stop("UnboundLocalError")
        ELSE IF dir = "r" /\ sv.out # "ok" THEN stop(sv.out)
        ELSE IF a1.out # "ok" THEN stop(a1.out)
        ELSE IF a2.out # "ok" THEN stop(a2.out)
        ELSE IF sv.out # "ok" THEN stop(sv.out)
        ELSE
        LET c1   == env[1].ten.shape[1]
            c2   == env[2].ten.shape[1]
            vec  == InitVecShape(dir, a1.ten, a2.ten, sv.ten)
        IN  IF vec = <<>> \/ Prod(vec) # c1 * d * d * c2 THEN stop("ValueError")
            ELSE
            LET n     == Min(c1 * d, d * c2)
                k     == Rank(n, chi)
                ten_l == Tensor(<<id>>, <<d, c1, k>>, "complex128")
                ten_r == Tensor(<<id + 1>>, <<d, k, c2>>, "complex128")
                m1    == MPS_write(MPS_write(m, site, ten_l).st, site + 1, ten_r).st
                s1    == MPS_writeS(s, site, Spectrum(id, k))
                asite == IF dir = "r" THEN site ELSE site + 1
                adir  == IF dir = "r" THEN "l" ELSE "r"
                added == CONT_add(c, m1, asite, adir)
            IN  StepResult(added.out, m1, s1, added.st,
                           [info EXCEPT !.out = added.out,
                                        !.adds = <<[site |-> asite, dir |-> adir]>>,
                                        !.n = n, !.rank = k,
                                        !.solver = Bool2Int(UsesLanczos(stage)),
                                        !.matvec = Bool2Int(~UsesLanczos(stage)),
                                        !.wrote = <<Written(site, "L", ten_l),
                                                    Written(site + 1, "R", ten_r)>>])

\* a faulty variant: the adds of a growth step are issued before its writes
GrowAddsOn_before(m, m1) == m

\* the chain store the two adds of a growth step read: m is the store when the
\* step began, m1 the store after mps.write(i, ten_l) and mps.write(L-i-1, ten_r)
GrowAddsOn(m, m1) == m1

\* one pass of the loop of dmrg.infinite: grow by the site pair (i, L-1-i)
dmrg_grow(m, c, chi, id, i, envl, envr) ==
    LET c1    == envl.shape[1]
        c2    == envr.shape[1]
        n     == Min(c1 * d, d * c2)
        cut   == n > chi
        ten_l == Tensor(<<id>>, <<d, c1, IF cut THEN Rank(n, chi) ELSE c1 * d>>, "complex128")
        ten_r == Tensor(<<id + 1>>, <<d, IF cut THEN Rank(n, chi) ELSE d * c2, c2>>, "complex128")
        m1    == MPS_write(MPS_write(m, i, ten_l).st, L - i - 1, ten_r).st
        addl  == CONT_add(c, GrowAddsOn(m, m1), i, "l")
        addr  == CONT_add(addl.st, GrowAddsOn(m, m1), L - i - 1, "r")
    IN  [out |-> IF addl.out # "ok" THEN addl.out ELSE addr.out,
         mps |-> m1,
         cont |-> IF addl.out # "ok" THEN addl.st ELSE addr.st,
         envl |-> addl.ten, envr |-> addr.ten,
         lenc |-> Rank(n, chi),
         last |-> [NoStep EXCEPT !.kind = "grow", !.site = i,
                                 !.out = IF addl.out # "ok" THEN addl.out ELSE addr.out,
                                 !.chi = chi, !.n = n, !.rank = Rank(n, chi),
                                 !.adds = <<[site |-> i, dir |-> "l"],
                                            [site |-> L - i - 1, dir |-> "r"]>>,
                                 !.wrote = <<Written(i, "L", ten_l),
                                             Written(L - i - 1, "R", ten_r)>>]]

(***************************************************************************)
(* The store API, continued: step2sites called on the stores as they are,  *)
(* and the specification of the API.                                        *)
(***************************************************************************)
\* dmrg(cont).step2sites(site, dir) on the stores as they are
DmrgStep(site, dir) ==
    /\ pc = "cont"
    /\ \E r \in {dmrg_step2sites(mps, S, cont, eng.chi, eng.clock, site, dir, "None")} :
           /\ mps' = r.mps
           /\ S' = r.S
           /\ cont' = r.cont
           /\ ret' = Call("step2sites", "dmrg", dir, site, r.out, NoTensor)
    /\ UNCHANGED <<L, pc, wlog, eng, lz, runs>>

Next ==
    \/ \E i \in Keys, ten \in InputTensors : MPSWrite(i, ten)
    \/ \E i \in Keys : MPSRead(i)
    \/ CONTInit
    \/ \E i \in Keys, ten \in InputTensors, dir \in Dirs \cup {BadDir} : CONTWrite(i, ten, dir)
    \/ \E i \in Keys, dir \in Dirs \cup {BadDir} : CONTRead(i, dir)
    \/ \E i \in Interior, dir \in Dirs \cup {BadDir} : CONTAdd(i, dir)
    \/ \E site \in WindowSites, dir \in Dirs \cup {BadDir} : DmrgStep(site, dir)

Spec == Init /\ [][Next]_vars

(***************************************************************************)
(* The driver (examples/TFIM.py): build the stores, infinite(), raise chi,  *)
(* first_sweep(), sweep() until converged or k > 5, right_sweep() in stage  *)
(* 'Final'.                                                                *)
(***************************************************************************)
MaxChain == 8           \* longest chain explored
MaxChi == 3             \* largest bond cap explored
SweepMax == 5           \* the driver's cap on the sweep counter k

EngineLengths == 4..MaxChain

Chis == 1..MaxChi

\* a budget that the run overflows, and one it never reaches (max_ram = 1)
TightBudget == 16 * ComplexSize

AmpleBudget == 1024 * 1024 * 1024

EngineBudgets == {TightBudget, AmpleBudget}

\* how many of the n singular values of a decomposition exceed a cutoff: the
\* numbers decide; none when the decomposition was not reached
AboveCutoff(n) == IF n = 0 THEN {0} ELSE 1..n

\* the factor each site was last written from
RolesAfter(role, wrote) ==
    [s \in (DOMAIN role) \cup {wrote[n].site : n \in DOMAIN wrote} |->
        IF \E n \in DOMAIN wrote : wrote[n].site = s
        THEN (CHOOSE w \in {wrote[n] : n \in DOMAIN wrote} : w.site = s).role
        ELSE role[s]]

\* En_temp[j] = ... in the sweep loop: which sweep recorded the first and the
\* last entry of En_temp, after the step that found j entries recorded; 0 for an
\* entry no sweep recorded (En_temp[0] = En[-1] of infinite(), the zeros of np.zeros)
EnTempAfter(entemp, j, len, sweep) ==
    [first |-> IF j = 0 THEN sweep ELSE entemp.first,
     last  |-> IF j = 2 * len - 8 - 1 THEN sweep ELSE entemp.last]

InitEngine ==
    /\ L \in EngineLengths
    /\ \E b \in EngineBudgets : mps = MPS_init(L, b)
    /\ \E b \in EngineBudgets : cont = CONT_init(MPS_init(L, b), L, b)
    /\ S = EmptyMap
    /\ pc = "cont"
    /\ wlog = <<>>
    /\ ret = Call("init", "CONT", "-", 0, "ok", NoTensor)
    /\ \E c \in Chis : eng = [EngIdle EXCEPT !.chi = c]
    /\ lz = LzIdle
    /\ runs = NoRuns

\* a faulty variant: the sweep counter is never looked at
SweepCap_never(k) == FALSE

\* if k > 5: break
SweepCap(k) == k > SweepMax

\* infinite(), up to its loop: the two full boundary contractions
InfiniteStart ==
    /\ pc = "cont"
    /\ eng' = [eng EXCEPT !.i = 1, !.envl = CONT_left(mps, 0).ten,
                          !.envr = CONT_right(mps, L, L - 1).ten,
                          !.nfull = @ + 2]
    /\ pc' = "grow"
    /\ ret' = Call("infinite", "dmrg", "-", 0, "ok", NoTensor)
    /\ UNCHANGED <<L, mps, S, cont, wlog, lz, runs>>

\* one pass of the loop for i in range(1, int(L/2))
GrowStep ==
    /\ pc = "grow"
    /\ eng.i < L \div 2
    /\ \E g \in {dmrg_grow(mps, cont, eng.chi, eng.clock, eng.i, eng.envl, eng.envr)} :
       \E big \in AboveCutoff(g.last.n) :
           /\ mps' = g.mps
           /\ cont' = g.cont
           /\ eng' = [eng EXCEPT !.i = @ + 1, !.envl = g.envl, !.envr = g.envr,
                                 !.lenc = g.lenc, !.clock = @ + 2,
                                 !.role = RolesAfter(@, g.last.wrote),
                                 !.last = [g.last EXCEPT !.big = big]]
           /\ pc' = IF g.out = "ok" THEN "grow" ELSE "crashed"
           /\ ret' = Call("grow", "dmrg", "-", eng.i, g.out, NoTensor)
    /\ UNCHANGED <<L, S, wlog, lz, runs>>

\* after the loop: self.mps.writeS(i, np.diag(c)) with the last i, and return
InfiniteEnd ==
    /\ pc = "grow"
    /\ eng.i >= L \div 2
    /\ S' = MPS_writeS(S, eng.i - 1, Spectrum(eng.clock, eng.lenc))
    /\ eng' = [eng EXCEPT !.clock = @ + 1, !.lastS = Spectrum(eng.clock, eng.lenc)]
    /\ pc' = "grown"
    /\ ret' = Call("infinite", "dmrg", "-", eng.i - 1, "ok", NoTensor)
    /\ UNCHANGED <<L, mps, cont, wlog, lz, runs>>

\* sys.chi = chi, then the loop over mps.first_sweep() starts
SetChi(c) ==
    /\ pc = "grown"
    /\ eng' = [eng EXCEPT !.chi = c, !.sched = MPS_first_sweep(L)]
    /\ pc' = "first"
    /\ ret' = Call("chi", "dmrg", "-", c, "ok", NoTensor)
    /\ UNCHANGED <<L, mps, S, cont, wlog, lz, runs>>

\* sys.step2sites(site, dir) for the next (site, dir) of the running loop
Step ==
    /\ pc \in {"first", "sweep", "final"}
    /\ eng.sched # <<>>
    /\ \E now \in {Head(eng.sched)}, j \in {Len(MPS_sweep(L)) - Len(eng.sched)} :
       \E r \in {dmrg_step2sites(mps, S, cont, eng.chi, eng.clock, now.site, now.dir,
                                 IF pc = "final" THEN "Final" ELSE "None")} :
       \E big \in AboveCutoff(r.last.n) :
           /\ mps' = r.mps
           /\ S' = r.S
           /\ cont' = r.cont
           /\ eng' = [eng EXCEPT !.sched = Tail(@), !.clock = @ + 2,
                                 !.last = [r.last EXCEPT !.big = big],
                                 !.role = RolesAfter(@, r.last.wrote),
                                 !.entemp = IF pc = "sweep" /\ r.out = "ok"
                                            THEN EnTempAfter(@, j, L, eng.nsweeps + 1)
                                            ELSE @,
                                 !.prevdir = now.dir,
                                 !.prevS = eng.lastS,
                                 !.lastS = IF r.last.wrote # <<>> THEN r.S[now.site] ELSE @,
                                 !.nsteps = @ + 1,
                                 !.nturns = @ + Bool2Int(eng.prevdir \notin {"-", now.dir}),
                                 !.nadds = @ + Len(r.last.adds)]
           /\ pc' = IF r.out = "ok" THEN pc ELSE "crashed"
           /\ ret' = Call("step2sites", "dmrg", now.dir, now.site, r.out, NoTensor)
    /\ UNCHANGED <<L, wlog, lz, runs>>

\* the first loop is done: k = 0, En_temp = np.zeros(2*L-8), En_temp[0] = En[-1]
EndFirst ==
    /\ pc = "first"
    /\ eng.sched = <<>>
    /\ eng' = [eng EXCEPT !.k = 0, !.entemp = [first |-> 0, last |-> 0]]
    /\ pc' = IF 2 * L - 8 > 0 THEN "check" ELSE "crashed"
    /\ ret' = Call("En_temp", "driver", "-", 0,
                   IF 2 * L - 8 > 0 THEN "ok" ELSE "IndexError", NoTensor)
    /\ UNCHANGED <<L, mps, S, cont, wlog, lz, runs>>

\* while np.abs(En_temp[0] - En_temp[-1]) > 1e-10: the energies decide
WhileCheck(again) ==
    /\ pc = "check"
    /\ eng' = [eng EXCEPT !.sched = IF again THEN MPS_sweep(L) ELSE MPS_right_sweep(L)]
    /\ pc' = IF again THEN "sweep" ELSE "final"
    /\ ret' = Call("while", "driver", "-", eng.k, "ok", NoTensor)
    /\ UNCHANGED <<L, mps, S, cont, wlog, lz, runs>>

\* a full sweep is done: if k > 5: break; k += 1
EndSweep ==
    /\ pc = "sweep"
    /\ eng.sched = <<>>
    /\ eng' = [eng EXCEPT !.k = IF SweepCap(eng.k) THEN @ ELSE @ + 1,
                          !.nsweeps = @ + 1,
                          !.sched = IF SweepCap(eng.k) THEN MPS_right_sweep(L) ELSE <<>>]
    /\ pc' = IF SweepCap(eng.k) THEN "final" ELSE "check"
    /\ ret' = Call("k", "driver", "-", eng.k, "ok", NoTensor)
    /\ UNCHANGED <<L, mps, S, cont, wlog, lz, runs>>

\* the final loop is done
EndFinal ==
    /\ pc = "final"
    /\ eng.sched = <<>>
    /\ pc' = "done"
    /\ ret' = Call("done", "driver", "-", 0, "ok", NoTensor)
    /\ UNCHANGED <<L, mps, S, cont, wlog, eng, lz, runs>>

NextEngine ==
    \/ InfiniteStart
    \/ GrowStep
    \/ InfiniteEnd
    \/ \E c \in Chis : SetChi(c)
    \/ Step
    \/ EndFirst
    \/ \E again \in BOOLEAN : WhileCheck(again)
    \/ EndSweep
    \/ EndFinal

SpecSweep == InitEngine /\ [][NextEngine]_vars

(***************************************************************************)
(* Claims about the tiered stores (checked under Spec)                     *)
(***************************************************************************)
Last(q) == q[Len(q)]

\* the resident dictionary / the sidecar listing a call or a log entry addresses
ResidentOf(e) == IF e.st = "MPS" THEN mps.ram ELSE cont.ram[e.dir]

SidecarsOf(e) == IF e.st = "MPS" THEN mps.txt ELSE cont.txt[e.dir]

BudgetOf(e) == IF e.st = "MPS" THEN mps.max ELSE cont.max

OverflowCopy(e) == IF e.st = "MPS" THEN MPS_disk_read(mps, e.key) ELSE CONT_disk_read(cont, e.key, e.dir)

SameSlot(a, b) == a.st = b.st /\ a.dir = b.dir /\ a.key = b.key

\* the write found counter + size > budget
WroteOver(e) == e.cur + nbytes(e.ten) > BudgetOf(e)

\* C1: a read(k) that directly follows write(k, T) returns a tensor equal to T,
\* for every key, tensor, budget and earlier writes, in both stores.
C1_ReadAfterWrite ==
    (ret.op = "read" /\ wlog # <<>> /\ SameSlot(ret, Last(wlog)))
        => (ret.out = "ok" /\ TensorEq(ret.ten, Last(wlog).ten))

\* C3: when write(k, T) finds counter + size over the budget, T is in the overflow
\* tier and, on return, the resident tier holds no entry for k.
C3_OverflowLeavesNoResident ==
    (ret.op = "write" /\ ret.out = "ok" /\ wlog # <<>> /\ WroteOver(Last(wlog)))
        => /\ OverflowCopy(Last(wlog)).out = "ok"
           /\ TensorEq(OverflowCopy(Last(wlog)).ten, Last(wlog).ten)
           /\ Last(wlog).key \notin DOMAIN ResidentOf(Last(wlog))

\* C4: in every reachable state, the one after construction included, no key is in
\* both the resident dictionary and the overflow tier (payload with its sidecar).
C4_OneTierPerKey ==
    /\ (DOMAIN mps.ram) \cap (DOMAIN mps.txt) = {}
    /\ \A dir \in Dirs : (DOMAIN cont.ram[dir]) \cap (DOMAIN cont.txt[dir]) = {}

DistinctKeys(q) == \A a, b \in 1..Len(q) : a # b => ~SameSlot(q[a], q[b])

RECURSIVE Cumulative(_)
Cumulative(q) == IF q = <<>> THEN 0 ELSE nbytes(Head(q).ten) + Cumulative(Tail(q))

OverBudgetRun == wlog # <<>> /\ DistinctKeys(wlog) /\ Cumulative(wlog) > BudgetOf(wlog[1])

OnlyInOverflow(e) ==
    /\ e.key \notin DOMAIN ResidentOf(e)
    /\ OverflowCopy(e).out = "ok"
    /\ TensorEq(OverflowCopy(e).ten, e.ten)

OnlyResident(e) ==
    /\ e.key \in DOMAIN ResidentOf(e)
    /\ ResidentOf(e)[e.key] = e.ten
    /\ e.key \notin DOMAIN SidecarsOf(e)

FreshKeys(q) == \A n \in 1..Len(q) : ~q[n].had

NotInBothTiers(e) == e.key \notin (DOMAIN ResidentOf(e)) \cap (DOMAIN SidecarsOf(e))

C6_CounterWithinBudget == mps.cur <= mps.max /\ cont.cur <= cont.max

C6_Witness ==
    /\ Len(wlog) >= 2
    /\ ~WroteOver(wlog[1])
    /\ WroteOver(Last(wlog))
    /\ (mps.cur > 0 \/ cont.cur > 0)

\* C8: read(k) of a key that is in neither tier raises (the sidecar cannot be
\* opened) instead of returning a tensor, and leaves both stores as they were;
\* for the MPS store and both directions of the CONT store.
C8_MissingKeyFails ==
    [][(ret'.op = "read" /\ ret'.dir # BadDir
            /\ ret'.key \notin (DOMAIN ResidentOf(ret')) \cup (DOMAIN SidecarsOf(ret')))
        => (ret'.out = "FileNotFoundError" /\ ret'.ten = NoTensor
            /\ mps' = mps /\ cont' = cont)]_vars

C8_Witness ==
    /\ ret.op = "read"
    /\ ret.st = "CONT"
    /\ ret.out = "FileNotFoundError"
    /\ ret.dir = "r"
    /\ wlog # <<>>

(***************************************************************************)
(* Claims about the sweeps                                                  *)
(***************************************************************************)
StepDone == eng.last.kind = "step" /\ eng.last.out = "ok"

\* the add a step of direction dir at site owes to the environments
OwedAdd(site, dir) ==
    IF dir = "r" THEN [site |-> site, dir |-> "l"] ELSE [site |-> site + 1, dir |-> "r"]

\* C2: the Left[site-1] and Right[site+2] a step obtained from env_prep(site)
\* equal the contractions of the tensors stored at sites 0..site-1 and
\* site+2..L-1 when the step began; no step uses an environment built from a
\* site tensor that has been overwritten since.
C2_EnvironmentsFresh ==
    (eng.last.kind = "step" /\ eng.last.envl # NoTensor /\ eng.last.envr # NoTensor)
        => /\ TensorEq(eng.last.envl, eng.last.wantl)
           /\ TensorEq(eng.last.envr, eng.last.wantr)

\* C10: every step performs exactly the one add its direction owes, and every
\* change of direction brings one further add, so that the adds performed
\* number the steps taken plus the turning points passed.
C10_OneAddPerStepPlusTurns ==
    StepDone => /\ eng.last.adds = <<OwedAdd(eng.last.site, eng.last.dir)>>
                /\ eng.nadds = eng.nsteps + eng.nturns

(***************************************************************************)
(* Incremental against full contraction: a chain store that never          *)
(* overflows, a CONT store built on it, chain writes, and runs of           *)
(* add(1,'l'), add(2,'l'), ... and add(L-2,'r'), add(L-3,'r'), ... that     *)
(* start over from the boundary whenever the chain is written.              *)
(***************************************************************************)
MaxEnvLen == 5          \* longest chain explored
MaxEnvWrites == 2       \* chain writes explored
MaxEnvUnits == 2        \* largest CONT budget explored, in environments

EnvLengths == 4..MaxEnvLen

\* bytes of one environment of a chain of bond d
EnvSize == d * Wbond * d * FloatSize

EnvBudgets == {u * EnvSize : u \in 0..MaxEnvUnits}

\* np.random.random((d, d, d))
RandomTensor(id) == Tensor(<<id>>, <<d, d, d>>, "float64")

RECURSIVE WriteAll(_, _, _, _)
WriteAll(m, i, last, ten) ==
    IF i > last THEN m ELSE WriteAll(MPS_write(m, i, ten).st, i + 1, last, ten)

\* MPS.random: one random tensor at every interior site
MPS_random(m, len, id) == WriteAll(m, 1, len - 2, RandomTensor(id))

InitEnv ==
    /\ L \in EnvLengths
    /\ mps = MPS_init(L, AmpleBudget)
    /\ \E b \in EnvBudgets : cont = CONT_init(mps, L, b)
    /\ S = EmptyMap
    /\ pc = "env"
    /\ wlog = <<>>
    /\ ret = Call("init", "CONT", "-", 0, "ok", NoTensor)
    /\ eng = [nl |-> 0, nr |-> 0, clock |-> 1]
    /\ lz = LzIdle
    /\ runs = NoRuns

\* mps.random()
EnvRandom ==
    /\ pc = "env"
    /\ eng.clock <= MaxEnvWrites
    /\ mps' = MPS_random(mps, L, eng.clock)
    /\ S' = MPS_writeS(S, (L \div 2) - 1 + (L % 2), eye)
    /\ eng' = [nl |-> 0, nr |-> 0, clock |-> eng.clock + 1]
    /\ ret' = Call("random", "MPS", "-", 0, "ok", NoTensor)
    /\ UNCHANGED <<L, cont, pc, wlog, lz, runs>>

\* mps.write(i, ten) at an interior site
EnvChainWrite(i) ==
    /\ pc = "env"
    /\ eng.clock <= MaxEnvWrites
    /\ i \in 1..(L - 2)
    /\ mps' = MPS_write(mps, i, RandomTensor(eng.clock)).st
    /\ eng' = [nl |-> 0, nr |-> 0, clock |-> eng.clock + 1]
    /\ ret' = Call("write", "MPS", "-", i, "ok", RandomTensor(eng.clock))
    /\ UNCHANGED <<L, S, cont, pc, wlog, lz, runs>>

\* the next add of the left run: cont.add(nl + 1, 'l')
AddLeft ==
    /\ pc = "env"
    /\ eng.nl < L - 2
    /\ LET a == CONT_add(cont, mps, eng.nl + 1, "l")
       IN  /\ cont' = a.st
           /\ eng' = [eng EXCEPT !.nl = @ + Bool2Int(a.out = "ok")]
           /\ ret' = Call("add", "CONT", "l", eng.nl + 1, a.out, a.ten)
    /\ UNCHANGED <<L, mps, S, pc, wlog, lz, runs>>

\* the next add of the right run: cont.add(L - 2 - nr, 'r')
AddRight ==
    /\ pc = "env"
    /\ eng.nr < L - 2
    /\ LET a == CONT_add(cont, mps, L - 2 - eng.nr, "r")
       IN  /\ cont' = a.st
           /\ eng' = [eng EXCEPT !.nr = @ + Bool2Int(a.out = "ok")]
           /\ ret' = Call("add", "CONT", "r", L - 2 - eng.nr, a.out, a.ten)
    /\ UNCHANGED <<L, mps, S, pc, wlog, lz, runs>>

NextEnv ==
    \/ EnvRandom
    \/ \E i \in 1..(L - 2) : EnvChainWrite(i)
    \/ AddLeft
    \/ AddRight

SpecEnv == InitEnv /\ [][NextEnv]_vars

\* C7: after add(1,'l'), ..., add(N,'l') on an unchanged chain, Left[N] as the
\* store returns it equals left(N); after add(L-2,'r'), ..., add(L-1-N,'r'),
\* Right[L-1-N] equals right(L-1-N).
C7_IncrementalEqualsFull ==
    /\ eng.nl >= 1 =>
           /\ CONT_read(cont, eng.nl, "l").out = "ok"
           /\ TensorEq(CONT_read(cont, eng.nl, "l").ten, CONT_left(mps, eng.nl).ten)
    /\ eng.nr >= 1 =>
           /\ CONT_read(cont, L - 1 - eng.nr, "r").out = "ok"
           /\ TensorEq(CONT_read(cont, L - 1 - eng.nr, "r").ten,
                       CONT_right(mps, L, L - 1 - eng.nr).ten)

(***************************************************************************)
(* EffH.lanczos_grd: the Lanczos iteration, then the small eigenproblem     *)
(* with its exception handlers.                                            *)
(***************************************************************************)
MaxBond == 2            \* largest environment bond explored
KDefault == 300         \* EffH's default cap k on the Krylov dimension
SelectTop == 2          \* select_range = (0, 2) of the tridiagonal solver

Bonds == 1..MaxBond

KCaps == {1, 3, KDefault}

\* the starting vector: None (drawn at random), a vector, or the zero vector
Psi0Kinds == {"None", "vector", "zero"}

\* the orthogonalization mode exc of lanc_iter_old
ExcModes == {"off", "on"}

\* a faulty variant: the loop makes one pass more
InRange_inclusive(i, k) == i <= k

\* for i in range(1, self.k): whether the pass i runs
InRange(i, k) == i < k

\* a faulty variant: T is returned whole after an early stop
SideAtBreak_whole(i, k) == k

\* T = T[:i, :i]; break: the side of T after an early stop in pass i
SideAtBreak(i, k) == i

\* EffH.__init__: k = min(c1*c2*d**2, k)
EffH_k(c1, c2, cap) == Min(c1 * c2 * d * d, cap)

\* the exception classes met here: LinAlgError derives from ValueError,
\* ArpackNoConvergence from RuntimeError
IsA(e, cls) == e = cls \/ (e = "LinAlgError" /\ cls = "ValueError")

\* what eigh_tridiagonal(np.diag(T), np.diag(T, k=1), select='i', select_range=(0,2))
\* can do on a T of side n: it rejects a select_range beyond n and
\* non-finite entries with ValueError, and the LAPACK driver may fail
TridiagonalOutcomes(n, finite) ==
    (IF n > SelectTop /\ finite THEN {"ok"} ELSE {"ValueError"}) \cup {"LinAlgError"}

\* what np.linalg.eigh(T) can do
DenseOutcomes == {"ok", "LinAlgError"}

\* the try statement of lanczos_grd: the except clauses guard the try body
\* only; an exception raised inside a handler leaves the function
lanczos_try(tri, dense) ==
    IF tri = "ok" THEN [phase |-> "returned", by |-> "tridiagonal", exc |-> "-"]
    ELSE IF IsA(tri, "ValueError")
         THEN IF dense = "ok" THEN [phase |-> "returned", by |-> "dense", exc |-> "-"]
              ELSE [phase |-> "raised", by |-> "-", exc |-> dense]
    ELSE IF IsA(tri, "ArpackNoConvergence")
         THEN [phase |-> "returned", by |-> "rayleigh", exc |-> "-"]
    ELSE [phase |-> "raised", by |-> "-", exc |-> tri]

InitLanczos ==
    /\ L = 4
    /\ mps = MPS_init(L, AmpleBudget)
    /\ cont = NoCont
    /\ S = EmptyMap
    /\ pc = "lanczos"
    /\ wlog = <<>>
    /\ ret = Call("init", "EffH", "-", 0, "ok", NoTensor)
    /\ eng = EngIdle
    /\ runs = NoRuns
    /\ \E c1 \in Bonds, c2 \in Bonds, cap \in KCaps, p \in Psi0Kinds, mode \in ExcModes :
           lz = [phase |-> "start", k |-> EffH_k(c1, c2, cap), psi0 |-> p, i |-> 0,
                 vecs |-> 0, matvecs |-> 0, side |-> 0, tri |-> "-", dense |-> "-",
                 by |-> "-", exc |-> "-",
                 cap |-> cap, dim |-> c1 * c2 * d * d, mode |-> mode, projs |-> 0]

\* lanc_iter_old up to its loop: vecs = [psi0], T = zeros((k,k)), one matvec
LancStart ==
    /\ lz.phase = "start"
    /\ lz' = [lz EXCEPT !.phase = "loop", !.i = 1, !.vecs = 1, !.matvecs = 1, !.side = lz.k]
    /\ UNCHANGED <<L, mps, S, cont, pc, wlog, ret, eng, runs>>

\* one pass of for i in range(1, k); small says whether beta < 1e-8
LancIter(small) ==
    /\ lz.phase = "loop"
    /\ InRange(lz.i, lz.k)
    /\ small => lz.psi0 # "zero"
    /\ lz' = IF small THEN [lz EXCEPT !.phase = "solve", !.side = SideAtBreak(lz.i, lz.k)]
             ELSE [lz EXCEPT !.i = @ + 1, !.vecs = @ + 1, !.matvecs = @ + 1,
                             !.projs = @ + (IF lz.mode = "on" THEN lz.i ELSE 0)]
    /\ UNCHANGED <<L, mps, S, cont, pc, wlog, ret, eng, runs>>

\* the loop ran out: return T, np.array(vecs).T
LancEnd ==
    /\ lz.phase = "loop"
    /\ ~InRange(lz.i, lz.k)
    /\ lz' = [lz EXCEPT !.phase = "solve"]
    /\ UNCHANGED <<L, mps, S, cont, pc, wlog, ret, eng, runs>>

\* the try statement, for each way the two solvers can behave
Solve(tri, dense) ==
    /\ lz.phase = "solve"
    /\ tri \in TridiagonalOutcomes(lz.side, lz.psi0 # "zero")
    /\ dense \in DenseOutcomes
    /\ tri = "ok" => dense = "ok"
    /\ LET r == lanczos_try(tri, dense)
       IN  /\ lz' = [lz EXCEPT !.phase = r.phase, !.by = r.by, !.exc = r.exc, !.tri = tri,
                               !.dense = IF IsA(tri, "ValueError") THEN dense ELSE "-"]
           /\ ret' = Call("lanczos_grd", "EffH", "-", lz.side,
                          IF r.phase = "raised" THEN r.exc ELSE "ok", NoTensor)
    /\ UNCHANGED <<L, mps, S, cont, pc, wlog, eng, runs>>

NextLanczos ==
    \/ LancStart
    \/ \E small \in BOOLEAN : LancIter(small)
    \/ LancEnd
    \/ \E tri \in {"ok", "ValueError", "LinAlgError"}, dense \in DenseOutcomes : Solve(tri, dense)

SpecLanczos == InitLanczos /\ [][NextLanczos]_vars

\* lanczos_grd runs to its end: no pass of the loop and no solver call waits forever
SpecLanczosFair == SpecLanczos /\ WF_vars(NextLanczos)

\* C9: lanczos_grd never leaves by an exception of a solver: a failure of the
\* tridiagonal solver is answered by the dense one, a failure of the dense one
\* by the Rayleigh quotient and the starting vector.
C9_SolverFailuresHandled ==
    /\ lz.phase # "raised"
    /\ (lz.phase = "returned" /\ lz.tri # "ok") =>
           lz.by = (IF lz.dense = "ok" THEN "dense" ELSE "rayleigh")

(***************************************************************************)
(* Claims about truncation and the bond spectra                             *)
(***************************************************************************)
Truncated == eng.last.kind \in {"grow", "step"} /\ eng.last.wrote # <<>>

\* C11: after every truncation of infinite() and of step2sites(), the number of
\* singular values kept, which is the bond shared by the two site tensors
\* written, is at most the chi in force at that truncation.
C11_RankWithinChi ==
    Truncated =>
        /\ eng.last.rank <= eng.last.chi
        /\ eng.last.wrote[1].ten.shape[3] = eng.last.wrote[2].ten.shape[2]
        /\ eng.last.wrote[1].ten.shape[3] <= eng.last.chi

C11_Witness ==
    /\ StepDone
    /\ eng.last.n > eng.last.chi
    /\ eng.last.wrote[1].ten.shape[3] = eng.last.chi

\* C12: the rank kept by a truncation is the smaller of chi and the number of
\* singular values that exceed the cutoff, so that no singular value at or
\* below the cutoff is stored.
C12_RankIsAboveCutoff ==
    Truncated => eng.last.rank = Min(eng.last.big, eng.last.chi)

\* C13: after every two-site step the store holds the spectrum of the new
\* active bond and no other.
C13_OneSpectrumStored ==
    StepDone => DOMAIN S = {eng.last.site}

(***************************************************************************)
(* Claims about the sweeps' gauge, convergence test and end                 *)
(***************************************************************************)
StepAhead == pc \in {"first", "sweep"} /\ eng.sched # <<>>

LastFactor(s, role) == s \in DOMAIN eng.role /\ eng.role[s] = role

C15_TestAfterFullSweep ==
    ret.op = "while" =>
        /\ eng.nsweeps >= 1
        /\ eng.entemp.first = eng.nsweeps
        /\ eng.entemp.last = eng.nsweeps

\* C16: whatever the energies, at most SweepMax + 2 full sweeps are executed,
\* and after that many the engine is in the final sweep.
C16_SweepsBounded ==
    /\ eng.nsweeps <= SweepMax + 2
    /\ pc \in {"check", "sweep"} => eng.nsweeps <= SweepMax + 1

C16_Witness ==
    /\ pc = "final"
    /\ eng.nsweeps = SweepMax + 2
    /\ eng.k > SweepMax

(***************************************************************************)
(* Two runs alive at once, each constructing and using its own MPS store   *)
(***************************************************************************)
MaxRunWrites == 2       \* writes per behaviour, over both runs

DefaultPath == "MPS"    \* MPS.__init__(self, L, d=2, path='MPS', max_ram=4)

Paths == {DefaultPath, "MPS_b"}

\* budgets of the two runs: nothing stays resident / one complex element does
RunBudgets == {0, ComplexSize}

\* the store as the run x sees it: its own dictionary and counter, and the
\* files of the directory self.path
RunView(r, x) ==
    [ram |-> r.inst[x].ram, dat |-> r.fs[r.inst[x].path].dat, txt |-> r.fs[r.inst[x].path].txt,
     cur |-> r.inst[x].cur, max |-> r.inst[x].max]

\* the run's fields and its directory after an operation left the store as st
RunsAfter(r, x, st, over) ==
    [r EXCEPT !.inst[x].ram = st.ram, !.inst[x].cur = st.cur, !.inst[x].over = over,
              !.fs = Put(@, r.inst[x].path, [dat |-> st.dat, txt |-> st.txt])]

\* the tensors MPS.disk.empty_MPS writes to the directory at construction
SeedsOnDisk(len) ==
    LET ends == Put(Put(EmptyMap, 0, eye), len - 1, eye)
    IN  IF len % 2 = 1 THEN Put(ends, 1, oddSeed) ELSE ends

InitRuns ==
    /\ L \in ChainLengths
    /\ mps = MPS_init(L, 0)
    /\ S = EmptyMap
    /\ cont = NoCont
    /\ pc = "runs"
    /\ wlog = <<>>
    /\ ret = Call("init", "-", "-", 0, "ok", NoTensor)
    /\ eng = EngIdle
    /\ lz = LzIdle
    /\ runs = NoRuns

\* x = MPS(L, path=path, max_ram=budget): rmtree(path) if it exists, mkdir, seeds
RunInit(x, path, budget) ==
    /\ pc = "runs"
    /\ ~runs.inst[x].alive
    /\ \E st \in {MPS_init(L, budget)} :
           runs' = [runs EXCEPT !.inst[x] = [alive |-> TRUE, path |-> path, ram |-> st.ram,
                                             cur |-> st.cur, max |-> st.max,
                                             over |-> SeedsOnDisk(L)],
                                !.fs = Put(@, path, [dat |-> st.dat, txt |-> st.txt])]
    /\ ret' = Call("init", x, "-", 0, "ok", NoTensor)
    /\ UNCHANGED <<L, mps, S, cont, pc, wlog, eng, lz>>

\* x.write(i, ten)
RunWrite(x, i, ten) ==
    /\ pc = "runs"
    /\ runs.inst[x].alive
    /\ runs.n < MaxRunWrites
    /\ \E w \in {MPS_write(RunView(runs, x), i, ten)} :
           /\ runs' = [RunsAfter(runs, x, w.st,
                                 IF Overflows(RunView(runs, x), ten)
                                 THEN Put(runs.inst[x].over, i, ten)
                                 ELSE runs.inst[x].over)
                       EXCEPT !.n = @ + 1]
           /\ ret' = Call("write", x, "-", i, w.out, NoTensor)
    /\ UNCHANGED <<L, mps, S, cont, pc, wlog, eng, lz>>

\* x.read(i)
RunRead(x, i) ==
    /\ pc = "runs"
    /\ runs.inst[x].alive
    /\ \E r \in {MPS_read(RunView(runs, x), i)} :
           ret' = Call("read", x, "-", i, r.out, r.ten)
    /\ UNCHANGED <<L, mps, S, cont, pc, wlog, eng, lz, runs>>

NextRuns ==
    \/ \E x \in RunIds, path \in Paths, b \in RunBudgets : RunInit(x, path, b)
    \/ \E x \in RunIds, i \in Keys, ten \in InputTensors : RunWrite(x, i, ten)
    \/ \E x \in RunIds, i \in Keys : RunRead(x, i)

SpecRuns == InitRuns /\ [][NextRuns]_vars

(***************************************************************************)
(* Claims about direction tags, the byte counter and the routing of writes  *)
(***************************************************************************)
\* C17: CONT.write, CONT.read, CONT.add and dmrg.step2sites called with a
\* direction tag other than 'l' and 'r' raise an error, whatever the byte
\* counter, and leave the resident tier, the overflow tier, the counter and
\* the MPS as they were.
C17_BadDirectionRejected ==
    [][(ret'.dir = BadDir /\ ret'.op \in {"write", "read", "add", "step2sites"})
        => (ret'.out # "ok" /\ cont' = cont /\ mps' = mps /\ S' = S)]_vars

C17_Witness ==
    /\ ret.dir = BadDir
    /\ ret.op = "write"
    /\ ret.out = "ValueError"
    /\ cont.cur > 0

\* the overflow-tier entry (x, k) can be read from x's directory and holds
\* the tensor x wrote there last
OwnDataOnDisk(x, k) ==
    LET r == MPS_disk_read(RunView(runs, x), k)
    IN  r.out = "ok" /\ TensorEq(r.ten, runs.inst[x].over[k])

\* C18: two stores of two runs alive at the same time never delete or
\* overwrite each other's overflow-tier entries: after constructing or writing
\* to one store, every overflow entry of the other is readable with its own
\* data, also when both were created with the default path.
C18_RunsDoNotCollide ==
    \A x \in RunIds :
        runs.inst[x].alive => \A k \in DOMAIN runs.inst[x].over : OwnDataOnDisk(x, k)

\* sum(t.nbytes for t in dictionary.values())
RECURSIVE ResidentBytes(_)
ResidentBytes(f) ==
    IF DOMAIN f = {} THEN 0
    ELSE LET k == CHOOSE x \in DOMAIN f : TRUE
         IN  nbytes(f[k]) + ResidentBytes(Drop(f, k))

\* C19: the running byte counter is an exact account of the resident tier:
\* after construction and after any sequence of writes, repeated writes to one
\* key included, ram.current_size equals the total byte size of the tensors
\* held in the resident dictionary (of the MPS store, and of the CONT store
\* over its two directions).
C19_CounterIsResidentBytes ==
    /\ mps.cur = ResidentBytes(mps.ram)
    /\ cont.cur = ResidentBytes(cont.ram["l"]) + ResidentBytes(cont.ram["r"])

\* the effect of one write of ten under key on a tier pair: before (ram, dat,
\* txt, cur), after (ram2, dat2, txt2, cur2), with the budget max
RoutedByFill(ram, dat, txt, cur, ram2, dat2, txt2, cur2, max, key, ten) ==
    IF cur + nbytes(ten) > max
    THEN /\ key \in DOMAIN txt2 /\ txt2[key] = ten.shape /\ dat2[key] = Payload(ten)
         /\ ram2 = ram
         /\ cur2 = cur
    ELSE /\ key \in DOMAIN ram2 /\ ram2[key] = ten
         /\ dat2 = dat /\ txt2 = txt
         /\ cur2 = cur + nbytes(ten)

\* C20: a write goes to the overflow tier exactly when the counter plus the
\* tensor's byte size is strictly greater than the budget (a tensor that
\* exactly fills the budget stays resident); the overflow write raises no
\* error and leaves the counter unchanged, a resident write increases the
\* counter by exactly the tensor's byte size.
C20_RoutingAndCounter ==
    [][(ret'.op = "write" /\ ret'.dir # BadDir)
        => /\ ret'.out = "ok"
           /\ Len(wlog') = Len(wlog) + 1
           /\ LET e == Last(wlog')
              IN  /\ e.key = ret'.key /\ e.st = ret'.st /\ e.dir = ret'.dir
                  /\ IF e.st = "MPS"
                     THEN RoutedByFill(mps.ram, mps.dat, mps.txt, mps.cur,
                                       mps'.ram, mps'.dat, mps'.txt, mps'.cur,
                                       mps.max, e.key, e.ten)
                     ELSE RoutedByFill(cont.ram[e.dir], cont.dat[e.dir], cont.txt[e.dir], cont.cur,
                                       cont'.ram[e.dir], cont'.dat[e.dir], cont'.txt[e.dir], cont'.cur,
                                       cont.max, e.key, e.ten)]_vars

C20_Witness ==
    /\ ret.op = "write" /\ ret.out = "ok"
    /\ wlog # <<>>
    /\ LET e == Last(wlog)
       IN  /\ e.key = ret.key /\ e.st = ret.st /\ e.dir = ret.dir
           /\ e.cur > 0
           /\ e.cur + nbytes(e.ten) = BudgetOf(e)
           /\ e.key \in DOMAIN ResidentOf(e)
           /\ ResidentOf(e)[e.key] = e.ten
           /\ (IF e.st = "MPS" THEN mps.cur ELSE cont.cur) = BudgetOf(e)

(***************************************************************************)
(* Claims about what the steps of a run read, write and add                 *)
(***************************************************************************)
\* a step of any of the three loops (first_sweep, sweep, right_sweep) is about to run
AnyStepAhead == pc \in {"first", "sweep", "final"} /\ eng.sched # <<>>

MissingKey == {"KeyError", "FileNotFoundError"}

\* C21: on an even chain, from the state infinite() left, through first_sweep(),
\* any number of sweep() passes and right_sweep(): whenever a step is about to
\* run, Left[site-1], Right[site+2], the spectrum it seeds from and the site
\* tensors at site and site+1 are stored, and no step ends on a missing key.
C21_StepReadsFindEntries ==
    /\ (AnyStepAhead /\ L % 2 = 0) =>
           LET now == Head(eng.sched)
           IN  /\ CONT_read(cont, now.site - 1, "l").out = "ok"
               /\ CONT_read(cont, now.site + 2, "r").out = "ok"
               /\ MPS_readS(S, IF now.dir = "l" THEN now.site + 1 ELSE now.site - 1).out = "ok"
               /\ MPS_read(mps, now.site).out = "ok"
               /\ MPS_read(mps, now.site + 1).out = "ok"
    /\ (eng.last.kind = "step" /\ L % 2 = 0) => eng.last.out \notin MissingKey

C21_Witness ==
    /\ pc = "done"
    /\ L % 2 = 0
    /\ L >= 6
    /\ eng.nsweeps >= 2
    /\ eng.last.stage = "Final"
    /\ eng.last.out = "ok"

\* the five reads of step2sites(site, dir) on the stores as they are
StepCanRead(site, dir) ==
    /\ CONT_read(cont, site - 1, "l").out = "ok"
    /\ CONT_read(cont, site + 2, "r").out = "ok"
    /\ MPS_readS(S, IF dir = "l" THEN site + 1 ELSE site - 1).out = "ok"
    /\ MPS_read(mps, site).out = "ok"
    /\ MPS_read(mps, site + 1).out = "ok"

\* C22: for every L >= 4, even or odd, when infinite() returns every site
\* 0..L-1 holds a tensor, the stored Left and Right environments together cover
\* all sites (Left up to a site m-1, Right from m), the spectrum of the bond
\* m-1 between them is stored, and the first step of first_sweep() can read
\* everything it needs.
C22_GrownChainComplete ==
    pc = "grown" =>
        /\ \A s \in 0..(L - 1) : MPS_read(mps, s).out = "ok"
        /\ \E m \in 1..(L - 1) :
               /\ \A s \in 0..(m - 1) : CONT_read(cont, s, "l").out = "ok"
               /\ \A s \in m..(L - 1) : CONT_read(cont, s, "r").out = "ok"
               /\ MPS_readS(S, m - 1).out = "ok"
        /\ MPS_first_sweep(L) # <<>> =>
               StepCanRead(Head(MPS_first_sweep(L)).site, Head(MPS_first_sweep(L)).dir)

(***************************************************************************)
(* The two definitions of the sweep schedule: the loops of dmrg.half_sweep  *)
(* and dmrg.sweep, and the generators MPS.first_sweep and MPS.sweep that    *)
(* the driver iterates. Both are walked one visit at a time.                *)
(***************************************************************************)
MaxSchedLen == 12       \* longest chain whose schedules are walked

SchedLengths == 4..MaxSchedLen

\* CONT.count = {'l': 0, 'r': 1}
Count(dir) == IF dir = "r" THEN 1 ELSE 0

\* one pass of a loop of dmrg: the step it runs, and the entry En[idx] of the
\* array np.zeros(size) that receives the step's energy
Visit(site, dir, idx, size) == [site |-> site, dir |-> dir, idx |-> idx, size |-> size]

\* dmrg.half_sweep: for site in range(L//2, L-2): En[site - L//2] = step2sites(site, 'r')
dmrg_half_sweep(len) ==
    [n \in 1..NonNeg(len - 2 - (len \div 2)) |->
        Visit((len \div 2) + n - 1, "r", n - 1, NonNeg((len \div 2) - 2))]

\* dmrg.sweep(dir): for i in range(1, L-3): En[i-1] = step2sites(site(i), dir)
dmrg_sweep(len, dir) ==
    [i \in 1..NonNeg(len - 4) |->
        Visit(Count(dir) * (i + 1) + (1 - Count(dir)) * (len - 3 - i), dir, i - 1,
              NonNeg(len - 4))]

SchedIdle == [which |-> "idle", todo_d |-> <<>>, todo_m |-> <<>>, seen_d |-> <<>>,
              seen_m |-> <<>>, out |-> "ok"]

InitSchedule ==
    /\ L \in SchedLengths
    /\ mps = MPS_init(L, 0)
    /\ S = EmptyMap
    /\ cont = NoCont
    /\ pc = "sched"
    /\ wlog = <<>>
    /\ ret = Call("init", "dmrg", "-", 0, "ok", NoTensor)
    /\ eng = SchedIdle
    /\ lz = LzIdle
    /\ runs = NoRuns

\* start half_sweep(); sweep('l') next to first_sweep(), or sweep('r'); sweep('l')
\* next to MPS.sweep()
SchedBegin(which) ==
    /\ pc = "sched"
    /\ eng.which = "idle"
    /\ eng' = [SchedIdle EXCEPT
                  !.which = which,
                  !.todo_d = IF which = "first"
                             THEN dmrg_half_sweep(L) \o dmrg_sweep(L, "l")
                             ELSE dmrg_sweep(L, "r") \o dmrg_sweep(L, "l"),
                  !.todo_m = IF which = "first" THEN MPS_first_sweep(L) ELSE MPS_sweep(L)]
    /\ ret' = Call("begin", "dmrg", "-", 0, "ok", NoTensor)
    /\ UNCHANGED <<L, mps, S, cont, pc, wlog, lz, runs>>

\* one pass of the running loop of dmrg: the step runs, then its energy is
\* stored; an index outside the array raises IndexError and ends the loop
DmrgVisit ==
    /\ pc = "sched"
    /\ eng.which # "idle"
    /\ eng.todo_d # <<>>
    /\ \E v \in {Head(eng.todo_d)} :
           /\ eng' = [eng EXCEPT !.seen_d = Append(@, v),
                                 !.todo_d = IF v.idx < v.size THEN Tail(@) ELSE <<>>,
                                 !.out = IF v.idx < v.size THEN @ ELSE "IndexError"]
           /\ ret' = Call("step2sites", "dmrg", v.dir, v.site,
                          IF v.idx < v.size THEN "ok" ELSE "IndexError", NoTensor)
    /\ UNCHANGED <<L, mps, S, cont, pc, wlog, lz, runs>>

\* the driver takes the next (site, dir) from the generator of MPS
MpsVisit ==
    /\ pc = "sched"
    /\ eng.which # "idle"
    /\ eng.todo_m # <<>>
    /\ eng' = [eng EXCEPT !.seen_m = Append(@, Head(eng.todo_m)), !.todo_m = Tail(@)]
    /\ ret' = Call("next", "MPS", Head(eng.todo_m).dir, Head(eng.todo_m).site, "ok", NoTensor)
    /\ UNCHANGED <<L, mps, S, cont, pc, wlog, lz, runs>>

NextSchedule ==
    \/ \E which \in {"first", "full"} : SchedBegin(which)
    \/ DmrgVisit
    \/ MpsVisit

SpecSchedule == InitSchedule /\ [][NextSchedule]_vars

\* the visits both walks have made so far are the same (site, direction) pairs
SameVisits ==
    \A n \in 1..Min(Len(eng.seen_d), Len(eng.seen_m)) :
        /\ eng.seen_d[n].site = eng.seen_m[n].site
        /\ eng.seen_d[n].dir = eng.seen_m[n].dir

\* C23: for every L >= 4, half_sweep() followed by sweep('l') visits the same
\* (site, direction) pairs as MPS.first_sweep(), and sweep('r') followed by
\* sweep('l') the same as MPS.sweep(); every step's energy index lies inside
\* the array its loop allocated.
C23_SchedulesAgree ==
    (pc = "sched" /\ eng.which # "idle") =>
        /\ SameVisits
        /\ (eng.todo_d = <<>> /\ eng.todo_m = <<>>) => Len(eng.seen_d) = Len(eng.seen_m)
        /\ \A n \in 1..Len(eng.seen_d) : eng.seen_d[n].idx < eng.seen_d[n].size
        /\ eng.out = "ok"

(***************************************************************************)
(* Claims about the Lanczos iteration                                       *)
(***************************************************************************)
LancReturned == lz.phase \in {"solve", "returned", "raised"}

\* C24: when the Lanczos iteration returns, after all k passes or after an
\* early stop because the residual norm fell below 1e-8 in pass i, the
\* tridiagonal matrix it returns is square with side equal to the number of
\* Krylov vectors it returns, the number of iterations actually performed.
C24_SideIsVectorCount ==
    LancReturned =>
        /\ lz.side = lz.vecs
        /\ lz.vecs = lz.matvecs

C24_Witness ==
    /\ lz.phase = "solve"
    /\ lz.side > 1
    /\ lz.side < lz.k
    /\ lz.vecs = lz.side

\* C25: the Lanczos iteration always terminates, and it applies matvec at
\* most k times, k being the smaller of the configured cap and the problem
\* dimension c1*c2*d*d, for every start vector and both orthogonalization modes.
C25_TerminatesWithinK ==
    /\ [](pc = "lanczos" => lz.matvecs <= Min(lz.cap, lz.dim))
    /\ <>LancReturned

C25_Witness ==
    /\ lz.phase = "solve"
    /\ lz.mode = "on"
    /\ lz.projs > 0
    /\ lz.matvecs = lz.dim
    /\ lz.dim < lz.cap

\* C26: a step run in stage 'Final' never invokes the Lanczos solver: it
\* normalizes the local two-site state and takes its Rayleigh quotient with one
\* matvec, then makes the writes of an ordinary step (both site tensors, the
\* bond spectrum) and the one environment add.
C26_FinalStepSkipsSolver ==
    (StepDone /\ eng.last.stage = "Final") =>
        /\ eng.last.solver = 0
        /\ eng.last.matvec = 1
        /\ Len(eng.last.wrote) = 2
        /\ eng.last.wrote[1].site = eng.last.site
        /\ eng.last.wrote[2].site = eng.last.site + 1
        /\ eng.last.site \in DOMAIN S
        /\ S[eng.last.site].val = eng.last.wrote[1].ten.val
        /\ eng.last.adds = <<OwedAdd(eng.last.site, eng.last.dir)>>

C26_Witness ==
    /\ StepDone
    /\ eng.last.stage = "Final"
    /\ pc = "final"
    /\ eng.nsweeps >= 1
    /\ eng.last.site > 2

\* C27: in infinite() the full contractions left(0) and right(L-1) are computed
\* once, before the first growth step; every growth step i gets its next
\* environments from one add per side, add(i,'l') and add(L-1-i,'r'), each
\* issued after both site tensors of the step were written (each finds and
\* absorbs the tensor the step wrote).
C27_GrowthAddsOnce ==
    /\ eng.nfull = (IF pc = "cont" THEN 0 ELSE 2)
    /\ eng.last.kind = "grow" => eng.last.out \notin MissingKey
    /\ (eng.last.kind = "grow" /\ eng.last.out = "ok") =>
           /\ eng.last.adds = <<[site |-> eng.last.site, dir |-> "l"],
                                [site |-> L - 1 - eng.last.site, dir |-> "r"]>>
           /\ eng.last.wrote[1].site = eng.last.site
           /\ eng.last.wrote[2].site = L - 1 - eng.last.site
           /\ Last(eng.envl.val) = eng.last.wrote[1].ten.val[1]
           /\ Head(eng.envr.val) = eng.last.wrote[2].ten.val[1]
           /\ Len(eng.envl.val) = eng.last.site + 1
           /\ Len(eng.envr.val) = eng.last.site + 1

C27_Witness ==
    /\ pc = "grow"
    /\ eng.last.kind = "grow"
    /\ eng.last.out = "ok"
    /\ eng.last.site >= 2
    /\ eng.nfull = 2

\* C28: on an even chain, in the first half-sweep and in every full sweep, the
\* spectrum a step reads to seed its local state (S[site-1] rightwards,
\* S[site+1] leftwards) is the one the step just before it wrote, or the one
\* infinite() wrote for the very first step; the turning points included.
C28_SeedIsPreviousSpectrum ==
    (eng.last.kind = "step" /\ eng.last.stage = "None" /\ L % 2 = 0) =>
        /\ eng.last.seed # NoTensor
        /\ eng.last.seed = eng.prevS

C28_Witness ==
    /\ StepDone
    /\ L % 2 = 0
    /\ pc = "sweep"
    /\ eng.nsweeps >= 1
    /\ eng.nturns >= 3
    /\ eng.last.dir = "r"
    /\ eng.last.site = 2
    /\ eng.last.seed = eng.prevS

(***************************************************************************)
(* The reshape helpers: the loops of MPS.left_ten / MPS.right_ten and the   *)
(* vectorized MPS_InMemory.left_ten / right_ten (MPS_optimized.py).          *)
(* A matrix is its shape and its row-major buffer; the entries are pairwise *)
(* distinct, so that a tensor tells for each index which entry it received. *)
(***************************************************************************)
MaxDim == 3             \* largest bond dimension l, r of a reshaped matrix

Dims == 1..MaxDim

Mat(a, b) == [shape |-> <<a, b>>, flat |-> [n \in 1..(a * b) |-> n - 1]]

\* mat[row, col]
MatAt(m, row, col) == m.flat[row * m.shape[2] + col + 1]

Idx3(n0, n1, n2) == (0..(n0 - 1)) \X (0..(n1 - 1)) \X (0..(n2 - 1))

\* MPS.left_ten: ten[i0, i1, :] = mat[i1*d + i0, :]
MPS_left_ten(m) ==
    LET a == m.shape[1]
        b == m.shape[2]
    IN  [shape |-> <<d, a \div d, b>>,
         at |-> [i \in Idx3(d, a \div d, b) |-> MatAt(m, i[2] * d + i[1], i[3])]]

\* MPS.right_ten: ten[i0, :, i2] = mat[:, i0*int(b/d) + i2]
MPS_right_ten(m) ==
    LET a == m.shape[1]
        b == m.shape[2]
    IN  [shape |-> <<d, a, b \div d>>,
         at |-> [i \in Idx3(d, a, b \div d) |-> MatAt(m, i[2], i[1] * (b \div d) + i[3])]]

\* mat.reshape(n0, n1, n2): the same row-major buffer under a new shape
Reshape3(m, n0, n1, n2) ==
    [shape |-> <<n0, n1, n2>>,
     at |-> [i \in Idx3(n0, n1, n2) |-> m.flat[i[1] * n1 * n2 + i[2] * n2 + i[3] + 1]]]

\* ten.transpose(p): axis k of the result is axis p[k] of ten
Transpose(t, p) ==
    LET sh == [k \in 1..3 |-> t.shape[p[k] + 1]]
    IN  [shape |-> <<sh[1], sh[2], sh[3]>>,
         at |-> [i \in Idx3(sh[1], sh[2], sh[3]) |->
                    t.at[<<i[CHOOSE k \in 1..3 : p[k] = 0],
                           i[CHOOSE k \in 1..3 : p[k] = 1],
                           i[CHOOSE k \in 1..3 : p[k] = 2]>>]]]

\* MPS_InMemory.left_ten: mat.reshape(a // d, d, b).transpose(1, 0, 2)
MPS_InMemory_left_ten(m) ==
    Transpose(Reshape3(m, m.shape[1] \div d, d, m.shape[2]), <<1, 0, 2>>)

\* MPS_InMemory.right_ten: mat.reshape(a, b // d, d).transpose(2, 0, 1)
MPS_InMemory_right_ten(m) ==
    Transpose(Reshape3(m, m.shape[1], m.shape[2] \div d, d), <<2, 0, 1>>)

ReshapeIdle == [fn |-> "none", l |-> 0, r |-> 0, loop |-> NoTensor, vec |-> NoTensor,
                at |-> <<>>, got |-> <<>>]

InitReshape ==
    /\ L = 4
    /\ mps = MPS_init(L, 0)
    /\ S = EmptyMap
    /\ cont = NoCont
    /\ pc = "reshape"
    /\ wlog = <<>>
    /\ ret = Call("init", "MPS", "-", 0, "ok", NoTensor)
    /\ eng = ReshapeIdle
    /\ lz = LzIdle
    /\ runs = NoRuns

\* left_ten(mat) with mat of shape (d*l, r), by both classes
LeftTen(l, r) ==
    /\ pc = "reshape"
    /\ eng.fn = "none"
    /\ eng' = [ReshapeIdle EXCEPT !.fn = "left_ten", !.l = l, !.r = r,
                                  !.loop = MPS_left_ten(Mat(d * l, r)),
                                  !.vec = MPS_InMemory_left_ten(Mat(d * l, r))]
    /\ ret' = Call("left_ten", "MPS", "-", 0, "ok", NoTensor)
    /\ UNCHANGED <<L, mps, S, cont, pc, wlog, lz, runs>>

\* right_ten(mat) with mat of shape (l, d*r), by both classes
RightTen(l, r) ==
    /\ pc = "reshape"
    /\ eng.fn = "none"
    /\ eng' = [ReshapeIdle EXCEPT !.fn = "right_ten", !.l = l, !.r = r,
                                  !.loop = MPS_right_ten(Mat(l, d * r)),
                                  !.vec = MPS_InMemory_right_ten(Mat(l, d * r))]
    /\ ret' = Call("right_ten", "MPS", "-", 0, "ok", NoTensor)
    /\ UNCHANGED <<L, mps, S, cont, pc, wlog, lz, runs>>

\* the entry of both results at one index
Look(i) ==
    /\ pc = "reshape"
    /\ eng.fn # "none"
    /\ eng.at = <<>>
    /\ i \in DOMAIN eng.loop.at
    /\ i \in DOMAIN eng.vec.at
    /\ eng' = [eng EXCEPT !.at = i, !.got = <<eng.loop.at[i], eng.vec.at[i]>>]
    /\ ret' = Call("index", "MPS", "-", 0, "ok", NoTensor)
    /\ UNCHANGED <<L, mps, S, cont, pc, wlog, lz, runs>>

NextReshape ==
    \/ \E l \in Dims, r \in Dims : LeftTen(l, r)
    \/ \E l \in Dims, r \in Dims : RightTen(l, r)
    \/ \E i \in Idx3(d, MaxDim, MaxDim) : Look(i)

SpecReshape == InitReshape /\ [][NextReshape]_vars

\* C29: for every matrix of shape (l, d*r), MPS_InMemory.right_ten returns a
\* tensor with the same entry at every index (i0, i1, i2) as MPS.right_ten, and
\* for every matrix of shape (d*l, r) MPS_InMemory.left_ten agrees with
\* MPS.left_ten in the same way.
C29_VectorizedAgrees ==
    (pc = "reshape" /\ eng.fn # "none") =>
        /\ eng.loop.shape = eng.vec.shape
        /\ \A i \in DOMAIN eng.loop.at : eng.loop.at[i] = eng.vec.at[i]
        /\ eng.at # <<>> => eng.got[1] = eng.got[2]

====
